---- MODULE Spec2Model ----
(***************************************************************************)
(* Stage-gating pipeline of the assessments app: AssessmentProgress and    *)
(* its advance(), the MCQ / essay / VR / finalize / reset request          *)
(* handlers of assessments/views.py and assessments/views_vr.py, and the   *)
(* question selection of QuestionListView.                                 *)
(*                                                                         *)
(* One user is modelled.  The user's rows of every table are the           *)
(* persisted state; each worker (a request being served) has its own       *)
(* in-memory copies of the rows it read.  A handler is split at its        *)
(* database operations, so that two requests of the user can interleave    *)
(* exactly where the code (which opens no transaction and takes no lock)   *)
(* lets them.  Numbers with decimals are kept in hundredths.               *)
(***************************************************************************)
EXTENDS Integers, Sequences, FiniteSets, TLC

\* ------------------------------------------------------------------ bounds
\* sequential runs
MaxSessions == 2      \* highest id of a VRSession row
MaxChoices == 1       \* a VR answer request finds fewer entries than this stored
MaxClock == 2         \* latest timestamp a VR complete request may take
MaxEssayRows == 3     \* most EssayResponse rows a new essay request may find
\* interleaved runs
MaxSessionsInterleaved == 1
MaxChoicesInterleaved == 1
MaxClockInterleaved == 2
MaxEssayRowsInterleaved == 0

\* ------------------------------------------------------- program constants
RequiredAnswers == 20     \* views.py: len(responses) != 20
VRSlots == 5              \* views_vr.py: choices[:5], while len(per_scores) < 5

Procs == {"w1", "w2"}

None == <<>>
Some(x) == <<x>>
IsNone(o) == o = <<>>
Val(o) == o[1]

Min(a, b) == IF a <= b THEN a ELSE b
Max(a, b) == IF a >= b THEN a ELSE b

RECURSIVE SumSeq(_)
SumSeq(s) == IF s = <<>> THEN 0 ELSE Head(s) + SumSeq(Tail(s))

\* round(num/den, 0) for num >= 0, den > 0 (ties upward)
RoundDiv(num, den) == (2 * num + den) \div (2 * den)

\* ------------------------------------------------- AssessmentProgress
NOT_STARTED == "NOT_STARTED"
MCQ_DONE    == "MCQ_DONE"
ESSAY_DONE  == "ESSAY_DONE"
VR_DONE     == "VR_DONE"
FINALIZED   == "FINALIZED"

order == <<NOT_STARTED, MCQ_DONE, ESSAY_DONE, VR_DONE, FINALIZED>>
Status == {order[i] : i \in 1..Len(order)}

\* order.index(s)
Index(s) == CHOOSE i \in 1..Len(order) : order[i] = s

\* The comparison of advance(): may the status be set to next_status?
AdvanceAllowedAlways(cur, next_status) == TRUE
AdvanceAllowed(cur, next_status) == Index(next_status) >= Index(cur)

\* advance() on an in-memory object p = [status, essay_snapshot, vr_score]:
\* the object afterwards
AdvanceObjWrap(p, next_status) ==
    IF AdvanceAllowed(p.status, next_status)
    THEN [p EXCEPT !.status = order[((Index(next_status) - 1) % (Len(order) - 1)) + 1]]
    ELSE p
AdvanceObj(p, next_status) ==
    IF AdvanceAllowed(p.status, next_status)
    THEN [p EXCEPT !.status = next_status]
    ELSE p

\* does advance() call self.save()?
AdvanceSavesBeforeFinal(p, next_status) ==
    AdvanceAllowed(p.status, next_status) /\ next_status # FINALIZED
AdvanceSaves(p, next_status) == AdvanceAllowed(p.status, next_status)

\* ------------------------------------------------------------ state
VARIABLES
    questions,        \* Question table: id -> row (reference data)
    workers,          \* the workers that serve requests of the user
    client,           \* the request bodies the user's client sends
    progress_exists,  \* does the user's AssessmentProgress row exist
    status,           \* AssessmentProgress.status
    essay_snapshot,   \* AssessmentProgress.essay_snapshot (None or a snapshot)
    vr_score,         \* AssessmentProgress.vr_score (None or hundredths)
    responses,        \* UserResponse rows of the user, in creation order
    scores,           \* Score rows of the user, in creation order
    essays,           \* EssayResponse rows of the user, in creation order
    sessions,         \* VRSession rows of the user: id -> row
    final,            \* FinalScore row of the user (None or the row)
    pc,               \* per worker: where its handler stands
    op,               \* per worker: the request it serves
    response,         \* the Response the last step returned, None when it returned none
    prog,             \* per worker: its in-memory AssessmentProgress object
    session,          \* per worker: its in-memory VRSession object
    tmp,              \* per worker: other locals of the handler
    library,          \* did `from transformers import BertTokenizer, BertModel` succeed
    tokenizer,        \* the module global _tokenizer (None or the instance a thread made)
    bert,             \* the module global _bert (None or the instance a thread made)
    analysis          \* per thread of the process: where its _semantic_flow call stands

db == <<progress_exists, status, essay_snapshot, vr_score, responses, scores,
        essays, sessions, final>>
locals == <<pc, op, response, prog, session, tmp>>
process == <<library, tokenizer, bert, analysis>>
env == <<questions, workers, client, process>>
vars == <<env, db, locals>>

\* ------------------------------------------------------------ Question bank
BankSize == 21

Traits == <<"empathy", "accountability", "integrity">>

\* User.age_range, User.gender, User.profession of the user
DeveloperProfile == [age_range |-> "21-30", gender |-> "Male", profession |-> "Developer"]
ManagerProfile == [age_range |-> "31-40", gender |-> "Female", profession |-> "Manager"]
Profiles == {DeveloperProfile, ManagerProfile}

\* The bank the stage requests run against: every question matches every
\* profile; traits, weights and reverse flags vary.
BankQuestion(q) ==
    [trait |-> Traits[(q % 3) + 1],
     weight |-> IF q % 5 = 0 THEN 120 ELSE 100,
     reverse_score |-> (q % 4 = 0),
     age_group |-> "all",
     gender_specific |-> "",
     profession_tags |-> {"Developer"}]

Bank == [q \in 1..BankSize |-> BankQuestion(q)]

\* ------------------------------------------------------------ MCQ scoring
\* score_map.get(ans, 3)
score_map(ans) ==
    CASE ans = "Strongly Disagree" -> 1
      [] ans = "Disagree" -> 2
      [] ans = "Neutral" -> 3
      [] ans = "Agree" -> 4
      [] ans = "Strongly Agree" -> 5
      [] OTHER -> 3

\* raw = score_map.get(ans, 3); if reverse_score: raw = 6 - raw
RawAnswer(question, ans) ==
    IF question.reverse_score THEN 6 - score_map(ans) ELSE score_map(ans)

\* The keys of a submission in the order of responses.items()
RECURSIVE KeySeq(_)
KeySeq(S) ==
    IF S = {} THEN <<>>
    ELSE LET k == CHOOSE x \in S : \A y \in S : x <= y
         IN <<k>> \o KeySeq(S \ {k})

\* The entries whose question exists (Question.DoesNotExist: continue)
KnownKeysOrNone(qs, responses_in) ==
    IF DOMAIN responses_in \subseteq DOMAIN qs
    THEN SelectSeq(KeySeq(DOMAIN responses_in), LAMBDA k : k \in DOMAIN qs)
    ELSE <<>>
KnownKeys(qs, responses_in) ==
    SelectSeq(KeySeq(DOMAIN responses_in), LAMBDA k : k \in DOMAIN qs)

\* The UserResponse rows the loop creates
ResponseRows(qs, responses_in) ==
    LET ks == KnownKeys(qs, responses_in)
    IN [i \in 1..Len(ks) |->
          [question |-> ks[i], answer |-> RawAnswer(qs[ks[i]], responses_in[ks[i]])]]

\* trait_scores: the traits in first-seen order
RECURSIVE Dedup(_)
Dedup(s) ==
    IF s = <<>> THEN <<>>
    ELSE LET r == Dedup(SubSeq(s, 1, Len(s) - 1))
             x == s[Len(s)]
         IN IF \E i \in 1..Len(r) : r[i] = x THEN r ELSE Append(r, x)

TraitOrder(qs, responses_in) ==
    LET ks == KnownKeys(qs, responses_in)
    IN Dedup([i \in 1..Len(ks) |-> qs[ks[i]].trait])

\* trait_scores[trait]: raw * question.weight of each answered question (hundredths)
TraitValues(qs, responses_in, trait) ==
    LET ks == SelectSeq(KnownKeys(qs, responses_in), LAMBDA k : qs[k].trait = trait)
    IN [i \in 1..Len(ks) |-> RawAnswer(qs[ks[i]], responses_in[ks[i]]) * qs[ks[i]].weight]

\* avg = round(min(sum(values) / max(len(values), 1), 5.0), 2)
TraitAvg(values) == Min(RoundDiv(SumSeq(values), Max(Len(values), 1)), 500)

\* The Score rows the second loop creates
ScoreRows(qs, responses_in) ==
    LET ts == TraitOrder(qs, responses_in)
    IN [i \in 1..Len(ts) |->
          [trait |-> ts[i], score |-> TraitAvg(TraitValues(qs, responses_in, ts[i]))]]

\* request.data["responses"] of the MCQ requests that are modelled
MCQInputs ==
    { [q \in 1..RequiredAnswers |-> "Agree"],
      [q \in 1..RequiredAnswers |-> IF q % 2 = 0 THEN "Strongly Agree" ELSE "Disagree"],
      [q \in 101..(100 + RequiredAnswers) |-> "Agree"],
      [q \in 1..(RequiredAnswers - 1) |-> "Agree"] }

\* ------------------------------------------------------------ essay stage
\* An essay request body, with what analyze_essay measures on its texts:
\* mean compound tone (-100..100), authenticity (0..100), mean uniqueness
\* ratio (0..100) and the final score (0..10000), all in hundredths.
EssayInputs ==
    { [key |-> "e1", answers |-> 3, timers |-> 3, is_pasted |-> 3, min_chars |-> TRUE,
       tone_mean |-> 50, authenticity |-> 50, uniq_mean |-> 70, final_ai_score |-> 6200],
      [key |-> "e2", answers |-> 4, timers |-> 4, is_pasted |-> 4, min_chars |-> TRUE,
       tone_mean |-> -100, authenticity |-> 0, uniq_mean |-> 30, final_ai_score |-> 500],
      [key |-> "e3", answers |-> 3, timers |-> 2, is_pasted |-> 3, min_chars |-> TRUE,
       tone_mean |-> 0, authenticity |-> 50, uniq_mean |-> 50, final_ai_score |-> 3000] }

\* EssayResponseSerializer.is_valid()
SerializerValid(data) ==
    /\ data.min_chars
    /\ data.answers \in 3..10 /\ data.timers \in 3..10 /\ data.is_pasted \in 3..10
    /\ data.answers = data.timers /\ data.timers = data.is_pasted

\* for i in range(3): EssayResponse.objects.create(...)
EssayRowCount == 3

EssayRows(data) ==
    [i \in 1..EssayRowCount |-> [question_number |-> i, key |-> data.key]]

DISPLAY_TRAITS == <<"empathy", "ethical_reasoning", "authenticity", "critical_thinking",
                    "clarity", "inclusiveness", "accountability">>

EssayTraitKeys == {"empathy", "ethical_reasoning", "authenticity", "clarity",
                   "critical_thinking", "inclusiveness", "accountability",
                   "vocabulary_richness", "tone_balance", "leadership_signal"}

\* trait_scores[k] = max(min(trait_scores[k], 0.94), 0.10)
ClampTrait(v) == Max(Min(v, 94), 10)

\* The trait estimates of analyze_essay, before the clamp
EssayTraitRaw(data, k) ==
    LET authenticity == data.authenticity
        empathy == RoundDiv(data.tone_mean + 100, 2)
        ethics == RoundDiv(authenticity + empathy, 2)
    IN CASE k = "empathy" -> empathy
         [] k = "ethical_reasoning" -> ethics
         [] k = "authenticity" -> authenticity
         [] k = "clarity" -> RoundDiv(data.uniq_mean * 9, 10)
         [] k = "critical_thinking" -> RoundDiv(ethics * 9, 10)
         [] k = "inclusiveness" -> RoundDiv(empathy + data.tone_mean + 100, 3)
         [] k = "accountability" -> RoundDiv(authenticity + ethics, 2)
         [] k = "vocabulary_richness" -> data.uniq_mean
         [] k = "tone_balance" -> data.tone_mean
         [] k = "leadership_signal" -> RoundDiv(authenticity + empathy, 2)

\* What EssaySubmitView stores of analyze_essay's result in prog.essay_snapshot
\* (ai_comment is read by nothing and is left out)
EssaySnapshot(data) ==
    [essay_score |-> data.final_ai_score,
     traits |-> [k \in EssayTraitKeys |-> ClampTrait(EssayTraitRaw(data, k))],
     subtraits |-> {DISPLAY_TRAITS[i] : i \in 1..Len(DISPLAY_TRAITS)}]

\* ------------------------------------------------------------ VR scoring
\* One answer as VRAnswerView stores it: the transcript by its number of words,
\* the features in hundredths, 0 standing for an absent (or falsy) feature.
VRAnswerInputs ==
    { [question_id |-> 1, words |-> 150, duration |-> 0, wps |-> 200, pause |-> 50],
      [question_id |-> 2, words |-> 0, duration |-> 0, wps |-> 0, pause |-> 0] }

\* The {"_summary": ...} record VRCompleteView appends: it has no transcript
\* and no features
SummaryItem(score, count, at) ==
    [question_id |-> 0, words |-> 0, duration |-> 0, wps |-> 0, pause |-> 0,
     summary |-> Some([vr_score |-> score, answers_count |-> count, completed_at |-> at])]

AnswerItem(a) ==
    [question_id |-> a.question_id, words |-> a.words, duration |-> a.duration,
     wps |-> a.wps, pause |-> a.pause, summary |-> None]

\* per_answer_score(item), in hundredths
per_answer_score(item) ==
    LET words == item.words
        dur == IF item.duration = 0 THEN 100 ELSE item.duration
        \* wps * max(1.0, dur), in ten-thousandths when taken from words / max(1.0, dur)
        den == Max(100, dur)
        \* wps >= x (x in hundredths)
        WpsGe(x) == IF item.wps # 0 THEN item.wps >= x ELSE words * 10000 >= x * den
        WpsLe(x) == IF item.wps # 0 THEN item.wps <= x ELSE words * 10000 <= x * den
        pauses == IF item.pause = 0 THEN 50 ELSE item.pause
        length == IF words >= 120 THEN 600
                  ELSE IF words >= 80 THEN 500
                  ELSE IF words >= 50 THEN 400
                  ELSE IF words >= 30 THEN 300
                  ELSE IF words >= 15 THEN 200
                  ELSE 100
        fluency == IF WpsGe(120) /\ WpsLe(320) THEN 300
                   ELSE IF WpsGe(80) /\ WpsLe(400) THEN 200
                   ELSE IF WpsGe(50) /\ WpsLe(500) THEN 100
                   ELSE 0
        pausing == IF pauses < 80 THEN 100
                   ELSE IF pauses < 200 THEN 50
                   ELSE 0
    IN Max(0, Min(1000, length + fluency + pausing))

\* vr_score = round(sum(per_scores), 2) over answers = choices[:5], padded with 0.0
SessionScoreAllAnswers(choices) ==
    SumSeq([i \in 1..Len(choices) |-> per_answer_score(choices[i])])
SessionScore(choices) ==
    LET answers == SubSeq(choices, 1, Min(Len(choices), VRSlots))
    IN SumSeq([i \in 1..Len(answers) |-> per_answer_score(answers[i])])

\* ------------------------------------------------------------ result combiner
\* mcq_scores = {s.trait: s.score for s in Score.objects.filter(user=user)}:
\* is the dict empty, and mcq_scores.get(trait, 0) (a later row replaces an earlier)
McqScoresEmpty(rows) == rows = <<>>

McqScoreGet(rows, trait) ==
    LET hits == {i \in 1..Len(rows) : rows[i].trait = trait}
    IN IF hits = {} THEN 0
       ELSE rows[CHOOSE i \in hits : \A j \in hits : j <= i].score

\* snap = prog.essay_snapshot or {}; snap.get("subtraits", {}); snap.get("traits", {})
SnapSubtraits(snapshot) == IF IsNone(snapshot) THEN {} ELSE Val(snapshot).subtraits

SnapTraitGet(snapshot, trait) ==
    IF IsNone(snapshot) THEN 0
    ELSE IF trait \in DOMAIN Val(snapshot).traits THEN Val(snapshot).traits[trait] ELSE 0

\* combined_traits[trait]
CombinedTrait(rows, snapshot, trait) ==
    LET mcq_val == Max(50, Min(McqScoreGet(rows, trait), 470))
        essay_val == Max(50, Min(SnapTraitGet(snapshot, trait) * 5, 470))
    IN [trait |-> trait, score |-> Min(mcq_val + essay_val, 1000),
        mcq_score |-> mcq_val, essay_score |-> essay_val]

\* combined_traits.items(), in the order of DISPLAY_TRAITS
CombinedTraits(rows, snapshot) ==
    LET ts == SelectSeq(DISPLAY_TRAITS, LAMBDA t : t \in SnapSubtraits(snapshot))
    IN [i \in 1..Len(ts) |-> CombinedTrait(rows, snapshot, ts[i])]

\* sorted(items, key=score, reverse=True): stable
InsertByScore(sorted, x) ==
    LET k == Cardinality({i \in 1..Len(sorted) : sorted[i].score >= x.score})
    IN SubSeq(sorted, 1, k) \o <<x>> \o SubSeq(sorted, k + 1, Len(sorted))

RECURSIVE SortByScore(_)
SortByScore(items) ==
    IF items = <<>> THEN <<>>
    ELSE InsertByScore(SortByScore(SubSeq(items, 1, Len(items) - 1)), items[Len(items)])

TopCount == 5

Top5(rows, snapshot) ==
    LET srt == SortByScore(CombinedTraits(rows, snapshot))
    IN SubSeq(srt, 1, Min(TopCount, Len(srt)))

Verdict(final_score) ==
    IF final_score >= 8500 THEN "Outstanding Integrity"
    ELSE IF final_score >= 7000 THEN "Strong Integrity"
    ELSE IF final_score >= 5000 THEN "Moderate Integrity"
    ELSE "Needs Improvement"

\* The defaults finalize_result hands to FinalScore.objects.update_or_create
FinalDefaults(rows, snapshot, vr) ==
    LET top_5 == Top5(rows, snapshot)
        total_out_of_50 == SumSeq([i \in 1..Len(top_5) |-> top_5[i].score])
        final_score == total_out_of_50 + vr
    IN [final_integrity_score |-> final_score,
        verdict |-> Verdict(final_score),
        top_traits |-> top_5]

\* ------------------------------------------------------------ workers
NoProg == [status |-> NOT_STARTED, essay_snapshot |-> None, vr_score |-> None]
NoSession == [id |-> 0, choices |-> <<>>, completed_at |-> None]
NoTmp == [vr_score |-> None, defaults |-> None]
NoOp == [name |-> "none", arg |-> None]
NoAnalysis == [pc |-> "idle", left |-> 0, embs |-> 0, flow |-> 0, authenticity |-> None]

\* request.data of the request worker p serves
Arg(p) == Val(op[p].arg)

\* get_progress(user): AssessmentProgress.objects.get_or_create(user=user)
StoredProgress ==
    [status |-> status, essay_snapshot |-> essay_snapshot, vr_score |-> vr_score]

\* The handler of request `name` returns a Response: the request and the
\* handler's in-memory objects are dropped
Respond(p, name, code) ==
    /\ pc' = [pc EXCEPT ![p] = "idle"]
    /\ response' = Some([worker |-> p, name |-> name, code |-> code, data |-> None])
    /\ op' = [op EXCEPT ![p] = NoOp]
    /\ prog' = [prog EXCEPT ![p] = NoProg]
    /\ session' = [session EXCEPT ![p] = NoSession]
    /\ tmp' = [tmp EXCEPT ![p] = NoTmp]

\* The handler goes on to its next database operation
Goto(p, label) ==
    /\ pc' = [pc EXCEPT ![p] = label]
    /\ response' = None

\* An idle worker takes request `name` with body `arg`
Receive(p, name, arg) == op' = [op EXCEPT ![p] = [name |-> name, arg |-> Some(arg)]]

\* self.save() of an AssessmentProgress object: every field is written
SaveProgress(obj) ==
    /\ progress_exists' = TRUE
    /\ status' = obj.status
    /\ essay_snapshot' = obj.essay_snapshot
    /\ vr_score' = obj.vr_score

\* obj.advance(next_status): the row is written only when advance() saves
AdvanceAndSave(obj, next_status) ==
    IF AdvanceSaves(obj, next_status)
    THEN SaveProgress(AdvanceObj(obj, next_status))
    ELSE UNCHANGED <<progress_exists, status, essay_snapshot, vr_score>>

\* ------------------------------------------------------------ SubmitAnswersView
MCQAllowedAnyStatus(s) == TRUE
MCQAllowed(s) == s \in {NOT_STARTED, MCQ_DONE}

\* len(responses) != 20 is the refusal
HasAllAnswersOrFewer(responses_in) == Cardinality(DOMAIN responses_in) <= RequiredAnswers
HasAllAnswers(responses_in) == Cardinality(DOMAIN responses_in) = RequiredAnswers

SubmitAnswers_Entry(p) ==
    /\ pc[p] = "idle"
    /\ \E responses_in \in client.mcq :
          /\ progress_exists' = TRUE
          /\ IF ~MCQAllowed(StoredProgress.status)
             THEN Respond(p, "mcq", 409)
             ELSE IF ~HasAllAnswers(responses_in)
             THEN Respond(p, "mcq", 400)
             ELSE /\ Receive(p, "mcq", responses_in)
                  /\ Goto(p, "mcq_delete")
                  /\ prog' = [prog EXCEPT ![p] = StoredProgress]
                  /\ UNCHANGED <<session, tmp>>
    /\ UNCHANGED <<env, status, essay_snapshot, vr_score, responses, scores,
                   essays, sessions, final>>

\* Score.objects.filter(user=user).delete(); UserResponse...delete()
SubmitAnswers_DeleteNothing(p) ==
    /\ pc[p] = "mcq_delete"
    /\ Goto(p, "mcq_create")
    /\ UNCHANGED <<env, db, op, prog, session, tmp>>
SubmitAnswers_Delete(p) ==
    /\ pc[p] = "mcq_delete"
    /\ scores' = <<>>
    /\ responses' = <<>>
    /\ Goto(p, "mcq_create")
    /\ UNCHANGED <<env, progress_exists, status, essay_snapshot, vr_score,
                   essays, sessions, final, op, prog, session, tmp>>

\* the two loops: UserResponse.objects.create(...), then Score.objects.create(...)
SubmitAnswers_Create(p) ==
    /\ pc[p] = "mcq_create"
    /\ responses' = responses \o ResponseRows(questions, Arg(p))
    /\ scores' = scores \o ScoreRows(questions, Arg(p))
    /\ Goto(p, "mcq_advance")
    /\ UNCHANGED <<env, progress_exists, status, essay_snapshot, vr_score,
                   essays, sessions, final, op, prog, session, tmp>>

SubmitAnswers_Advance(p) ==
    /\ pc[p] = "mcq_advance"
    /\ AdvanceAndSave(prog[p], MCQ_DONE)
    /\ Respond(p, "mcq", 200)
    /\ UNCHANGED <<env, responses, scores, essays, sessions, final>>

\* ------------------------------------------------------------ EssaySubmitView
EssayAllowed(s) == s = MCQ_DONE

EssaySubmit_Entry(p) ==
    /\ pc[p] = "idle"
    /\ Len(essays) <= client.max_essay_rows
    /\ \E data \in client.essay :
          /\ progress_exists' = TRUE
          /\ IF ~EssayAllowed(StoredProgress.status)
             THEN Respond(p, "essay", 409)
             ELSE IF ~SerializerValid(data)
             THEN Respond(p, "essay", 400)
             ELSE /\ Receive(p, "essay", data)
                  /\ Goto(p, "essay_create")
                  /\ prog' = [prog EXCEPT ![p] = StoredProgress]
                  /\ UNCHANGED <<session, tmp>>
    /\ UNCHANGED <<env, status, essay_snapshot, vr_score, responses, scores,
                   essays, sessions, final>>

EssaySubmit_Create(p) ==
    /\ pc[p] = "essay_create"
    /\ essays' = essays \o EssayRows(Arg(p))
    /\ Goto(p, "essay_check_mcq")
    /\ UNCHANGED <<env, progress_exists, status, essay_snapshot, vr_score,
                   responses, scores, sessions, final, op, prog, session, tmp>>

EssaySubmit_CheckMCQ(p) ==
    /\ pc[p] = "essay_check_mcq"
    /\ IF McqScoresEmpty(scores)
       THEN Respond(p, "essay", 400)
       ELSE /\ Goto(p, "essay_advance")
            /\ UNCHANGED <<op, prog, session, tmp>>
    /\ UNCHANGED <<env, db>>

EssaySubmit_Advance(p) ==
    /\ pc[p] = "essay_advance"
    /\ AdvanceAndSave([prog[p] EXCEPT !.essay_snapshot = Some(EssaySnapshot(Arg(p)))],
                      ESSAY_DONE)
    /\ Respond(p, "essay", 200)
    /\ UNCHANGED <<env, responses, scores, essays, sessions, final>>

\* ------------------------------------------------------------ ids and time
SetMax(S) == IF S = {} THEN 0 ELSE CHOOSE x \in S : \A y \in S : y <= x

\* The ids of VRSession that are stored, held in memory or named by a request
\* being served
SessionIdsInUse ==
    DOMAIN sessions
      \cup {session[p].id : p \in Procs}
      \cup {Val(op[p].arg).session_id :
               p \in {q \in Procs : op[q].name \in {"vr_answer", "vr_complete"}}}

\* The auto-increment id of the next VRSession row.  Ids are kept relative: an
\* id nothing refers to any more is not distinguished from a fresh one.
NextSessionId == SetMax(SessionIdsInUse) + 1

\* The timestamps that are stored or held in memory
TimesOf(choices, completed_at) ==
    (IF IsNone(completed_at) THEN {} ELSE {Val(completed_at)})
      \cup {Val(choices[i].summary).completed_at :
               i \in {j \in 1..Len(choices) : ~IsNone(choices[j].summary)}}

TimesInUse ==
    UNION ({TimesOf(sessions[i].choices, sessions[i].completed_at) : i \in DOMAIN sessions}
             \cup {TimesOf(session[p].choices, session[p].completed_at) : p \in Procs})

\* timezone.now(): later than every timestamp taken before.  Time is kept
\* relative to the timestamps that still exist.
Now == SetMax(TimesInUse) + 1

\* ------------------------------------------------------------ VRStartView
VRAllowed(s) == s = ESSAY_DONE

VRStart_Entry(p) ==
    /\ pc[p] = "idle"
    /\ NextSessionId <= client.max_sessions
    /\ progress_exists' = TRUE
    /\ IF ~VRAllowed(StoredProgress.status)
       THEN Respond(p, "vr_start", 409)
       ELSE /\ op' = [op EXCEPT ![p] = [name |-> "vr_start", arg |-> None]]
            /\ Goto(p, "vr_start_create")
            /\ UNCHANGED <<prog, session, tmp>>
    /\ UNCHANGED <<env, status, essay_snapshot, vr_score, responses, scores,
                   essays, sessions, final>>

\* VRSession.objects.create(user=request.user, scenario="ethics-01", choices=[])
NewSessionRow == [choices |-> <<>>, completed_at |-> None]

VRStart_Create(p) ==
    /\ pc[p] = "vr_start_create"
    /\ sessions' = [i \in DOMAIN sessions \cup {NextSessionId} |->
                      IF i = NextSessionId THEN NewSessionRow ELSE sessions[i]]
    /\ Respond(p, "vr_start", 200)
    /\ UNCHANGED <<env, progress_exists, status, essay_snapshot, vr_score,
                   responses, scores, essays, final>>

\* session.save() of an in-memory VRSession: UPDATE of every field, INSERT when
\* no row has the id any more
SaveSession(obj) ==
    sessions' = [i \in DOMAIN sessions \cup {obj.id} |->
                   IF i = obj.id
                   THEN [choices |-> obj.choices, completed_at |-> obj.completed_at]
                   ELSE sessions[i]]

\* VRSession.objects.get(id=session_id, user=request.user)
LoadSession(id) ==
    [id |-> id, choices |-> sessions[id].choices, completed_at |-> sessions[id].completed_at]

\* ------------------------------------------------------------ VRAnswerView
AnswerRefused(row) == ~IsNone(row.completed_at)

\* session_id 0 stands for a missing session_id (or question_id)
VRAnswer_Entry(p) ==
    /\ pc[p] = "idle"
    /\ \E sid \in client.session_ids, a \in client.answers :
          /\ sid \in DOMAIN sessions => Len(sessions[sid].choices) < client.max_choices
          /\ IF sid = 0
             THEN Respond(p, "vr_answer", 400)
             ELSE IF sid \notin DOMAIN sessions
             THEN Respond(p, "vr_answer", 404)
             ELSE IF AnswerRefused(sessions[sid])
             THEN Respond(p, "vr_answer", 409)
             ELSE /\ Receive(p, "vr_answer", [session_id |-> sid, answer |-> a])
                  /\ Goto(p, "vr_answer_save")
                  /\ session' = [session EXCEPT ![p] = LoadSession(sid)]
                  /\ UNCHANGED <<prog, tmp>>
    /\ UNCHANGED <<env, db>>

VRAnswer_Save(p) ==
    /\ pc[p] = "vr_answer_save"
    /\ SaveSession([session[p] EXCEPT
                      !.choices = Append(@, AnswerItem(Arg(p).answer))])
    /\ Respond(p, "vr_answer", 200)
    /\ UNCHANGED <<env, progress_exists, status, essay_snapshot, vr_score,
                   responses, scores, essays, final>>

\* ------------------------------------------------------------ VRCompleteView
VRComplete_Entry(p) ==
    /\ pc[p] = "idle"
    /\ Now <= client.max_clock
    /\ \E sid \in client.session_ids :
          /\ progress_exists' = TRUE
          /\ IF ~VRAllowed(StoredProgress.status)
             THEN Respond(p, "vr_complete", 409)
             ELSE IF sid = 0
             THEN Respond(p, "vr_complete", 400)
             ELSE /\ Receive(p, "vr_complete", [session_id |-> sid])
                  /\ Goto(p, "vr_complete_get")
                  /\ prog' = [prog EXCEPT ![p] = StoredProgress]
                  /\ UNCHANGED <<session, tmp>>
    /\ UNCHANGED <<env, status, essay_snapshot, vr_score, responses, scores,
                   essays, sessions, final>>

VRComplete_GetSession(p) ==
    /\ pc[p] = "vr_complete_get"
    /\ IF Arg(p).session_id \notin DOMAIN sessions
       THEN Respond(p, "vr_complete", 404)
       ELSE /\ Goto(p, "vr_complete_save")
            /\ session' = [session EXCEPT ![p] = LoadSession(Arg(p).session_id)]
            /\ UNCHANGED <<op, prog, tmp>>
    /\ UNCHANGED <<env, db>>

VRComplete_SaveSession(p) ==
    /\ pc[p] = "vr_complete_save"
    /\ LET score == SessionScore(session[p].choices)
           count == Min(Len(session[p].choices), VRSlots)
           now == Now
           obj == [session[p] EXCEPT
                     !.completed_at = Some(now),
                     !.choices = Append(@, SummaryItem(score, count, now))]
       IN /\ SaveSession(obj)
          /\ session' = [session EXCEPT ![p] = obj]
          /\ tmp' = [tmp EXCEPT ![p].vr_score = Some(score)]
    /\ Goto(p, "vr_complete_advance")
    /\ UNCHANGED <<env, progress_exists, status, essay_snapshot, vr_score,
                   responses, scores, essays, final, op, prog>>

VRComplete_Advance(p) ==
    /\ pc[p] = "vr_complete_advance"
    /\ AdvanceAndSave([prog[p] EXCEPT !.vr_score = tmp[p].vr_score], VR_DONE)
    /\ Goto(p, "finalize_entry")
    /\ prog' = [prog EXCEPT ![p] = NoProg]
    /\ session' = [session EXCEPT ![p] = NoSession]
    /\ UNCHANGED <<env, responses, scores, essays, sessions, final, op, tmp>>

\* ------------------------------------------------------------ finalize_result
FinalizeAllowedAnyStatus(s) == TRUE
FinalizeAllowed(s) == s = VR_DONE

Finalize_Entry(p) ==
    /\ pc[p] = "finalize_entry"
    /\ progress_exists' = TRUE
    /\ IF ~FinalizeAllowed(StoredProgress.status)
       THEN Respond(p, op[p].name, 409)
       ELSE /\ Goto(p, "finalize_scores")
            /\ prog' = [prog EXCEPT ![p] = StoredProgress]
            /\ UNCHANGED <<op, session, tmp>>
    /\ UNCHANGED <<env, status, essay_snapshot, vr_score, responses, scores,
                   essays, sessions, final>>

Finalize_ReadScores(p) ==
    /\ pc[p] = "finalize_scores"
    /\ IF McqScoresEmpty(scores)
       THEN Respond(p, op[p].name, 400)
       ELSE IF IsNone(prog[p].vr_score)
       THEN Respond(p, op[p].name, 400)
       ELSE /\ Goto(p, "finalize_upsert")
            /\ tmp' = [tmp EXCEPT ![p].defaults =
                         Some(FinalDefaults(scores, prog[p].essay_snapshot,
                                            Val(prog[p].vr_score)))]
            /\ UNCHANGED <<op, prog, session>>
    /\ UNCHANGED <<env, db>>

\* FinalScore.objects.update_or_create(user=user, defaults={...})
Finalize_Upsert(p) ==
    /\ pc[p] = "finalize_upsert"
    /\ final' = tmp[p].defaults
    /\ Goto(p, "finalize_advance")
    /\ UNCHANGED <<env, progress_exists, status, essay_snapshot, vr_score,
                   responses, scores, essays, sessions, op, prog, session, tmp>>

Finalize_Advance(p) ==
    /\ pc[p] = "finalize_advance"
    /\ AdvanceAndSave(prog[p], FINALIZED)
    /\ Respond(p, op[p].name, 200)
    /\ UNCHANGED <<env, responses, scores, essays, sessions, final>>

\* ------------------------------------------------------------ ResetAssessmentView
\* the five ...objects.filter(user=u).delete()
Reset_DeleteKeepsSessions(p) ==
    /\ pc[p] = "idle"
    /\ op' = [op EXCEPT ![p] = [name |-> "reset", arg |-> None]]
    /\ responses' = <<>>
    /\ scores' = <<>>
    /\ essays' = <<>>
    /\ final' = None
    /\ Goto(p, "reset_save")
    /\ UNCHANGED <<env, progress_exists, status, essay_snapshot, vr_score,
                   sessions, prog, session, tmp>>

Reset_Delete(p) ==
    /\ pc[p] = "idle"
    /\ op' = [op EXCEPT ![p] = [name |-> "reset", arg |-> None]]
    /\ responses' = <<>>
    /\ scores' = <<>>
    /\ essays' = <<>>
    /\ sessions' = <<>>
    /\ final' = None
    /\ Goto(p, "reset_save")
    /\ UNCHANGED <<env, progress_exists, status, essay_snapshot, vr_score,
                   prog, session, tmp>>

\* get_or_create, the three assignments, prog.save()
Reset_Save(p) ==
    /\ pc[p] = "reset_save"
    /\ SaveProgress(NoProg)
    /\ Respond(p, "reset", 200)
    /\ UNCHANGED <<env, responses, scores, essays, sessions, final>>

\* ------------------------------------------------------------ readers
\* ProgressView.get: the status a reader is given
ProgressView_Get == StoredProgress.status

\* FinalResultView.get: the code of the Response a reader is given
FinalResultView_Get ==
    IF StoredProgress.status # FINALIZED THEN 409
    ELSE IF IsNone(final) THEN 404
    ELSE 200

\* ------------------------------------------------------------ specification
\* The request bodies of the sequential runs
AllRequests ==
    [mcq |-> MCQInputs, essay |-> EssayInputs, answers |-> VRAnswerInputs,
     session_ids |-> 0..MaxSessions,
     max_sessions |-> MaxSessions, max_choices |-> MaxChoices,
     max_clock |-> MaxClock, max_essay_rows |-> MaxEssayRows,
     profile |-> DeveloperProfile]

\* The request bodies of the interleaved runs: two valid MCQ submissions that
\* differ, one valid essay, one answer, every session
FewRequests ==
    [mcq |-> {m \in MCQInputs : DOMAIN m = 1..RequiredAnswers},
     essay |-> {e \in EssayInputs : e.key = "e1"},
     answers |-> {a \in VRAnswerInputs : a.question_id = 1},
     session_ids |-> 1..MaxSessionsInterleaved,
     max_sessions |-> MaxSessionsInterleaved, max_choices |-> MaxChoicesInterleaved,
     max_clock |-> MaxClockInterleaved, max_essay_rows |-> MaxEssayRowsInterleaved,
     profile |-> DeveloperProfile]

\* No row of the user exists
InitRows ==
    /\ progress_exists = FALSE
    /\ status = NOT_STARTED
    /\ essay_snapshot = None
    /\ vr_score = None
    /\ responses = <<>>
    /\ scores = <<>>
    /\ essays = <<>>
    /\ sessions = <<>>
    /\ final = None

\* No request is being served
InitIdle ==
    /\ pc = [p \in Procs |-> "idle"]
    /\ op = [p \in Procs |-> NoOp]
    /\ response = None
    /\ prog = [p \in Procs |-> NoProg]
    /\ session = [p \in Procs |-> NoSession]
    /\ tmp = [p \in Procs |-> NoTmp]

\* The process has imported ai_analysis and no essay is being analysed
InitProcess ==
    /\ library = TRUE
    /\ tokenizer = None
    /\ bert = None
    /\ analysis = [t \in Procs |-> NoAnalysis]

InitStore ==
    /\ questions = Bank
    /\ InitProcess
    /\ InitRows
    /\ InitIdle

\* Two requests of the user may be served at once
Init ==
    /\ InitStore
    /\ workers = Procs
    /\ client = FewRequests

\* One request at a time
InitSeq ==
    /\ InitStore
    /\ workers = {"w1"}
    /\ client = AllRequests

Next ==
    \/ \E p \in workers : SubmitAnswers_Entry(p)
    \/ \E p \in workers : SubmitAnswers_Delete(p)
    \/ \E p \in workers : SubmitAnswers_Create(p)
    \/ \E p \in workers : SubmitAnswers_Advance(p)
    \/ \E p \in workers : EssaySubmit_Entry(p)
    \/ \E p \in workers : EssaySubmit_Create(p)
    \/ \E p \in workers : EssaySubmit_CheckMCQ(p)
    \/ \E p \in workers : EssaySubmit_Advance(p)
    \/ \E p \in workers : VRStart_Entry(p)
    \/ \E p \in workers : VRStart_Create(p)
    \/ \E p \in workers : VRAnswer_Entry(p)
    \/ \E p \in workers : VRAnswer_Save(p)
    \/ \E p \in workers : VRComplete_Entry(p)
    \/ \E p \in workers : VRComplete_GetSession(p)
    \/ \E p \in workers : VRComplete_SaveSession(p)
    \/ \E p \in workers : VRComplete_Advance(p)
    \/ \E p \in workers : Finalize_Entry(p)
    \/ \E p \in workers : Finalize_ReadScores(p)
    \/ \E p \in workers : Finalize_Upsert(p)
    \/ \E p \in workers : Finalize_Advance(p)
    \/ \E p \in workers : Reset_Delete(p)
    \/ \E p \in workers : Reset_Save(p)

Spec == Init /\ [][Next]_vars

SpecSeq == InitSeq /\ [][Next]_vars

\* One request at a time, every MCQ submission naming known questions; a
\* reader may look at the rows between any two steps
InitOneWriter ==
    /\ InitStore
    /\ workers = {"w1"}
    /\ client = [AllRequests EXCEPT !.mcq = FewRequests.mcq]

SpecOneWriter == InitOneWriter /\ [][Next]_vars

\* ------------------------------------------------------------ advance() alone
\* the highest session score: every slot at 10.00
MaxVRScore == VRSlots * 1000

\* The AssessmentProgress objects the fields allow
ProgressObjects ==
    [status : Status,
     essay_snapshot : {None} \cup {Some(EssaySnapshot(e)) : e \in {d \in EssayInputs : d.key = "e1"}},
     vr_score : {None, Some(1000)}]

\* obj.advance(next_status) on the object worker p holds; op[p] keeps the call
\* and the status the object had
Advance_Call(p) ==
    /\ pc[p] = "advance"
    /\ \E next_status \in Status :
          /\ AdvanceAndSave(prog[p], next_status)
          /\ prog' = [prog EXCEPT ![p] = AdvanceObj(prog[p], next_status)]
          /\ op' = [op EXCEPT ![p] =
                      [name |-> "advance",
                       arg |-> Some([next_status |-> next_status,
                                     status_before |-> prog[p].status])]]
    /\ response' = None
    /\ UNCHANGED <<env, responses, scores, essays, sessions, final, pc, session, tmp>>

\* A worker holds any object; the stored row is any row (another request may
\* have written it since the object was loaded)
InitAdvance ==
    /\ questions = Bank
    /\ InitProcess
    /\ workers = {"w1"}
    /\ client = AllRequests
    /\ progress_exists = TRUE
    /\ \E row \in ProgressObjects :
          /\ status = row.status
          /\ essay_snapshot = row.essay_snapshot
          /\ vr_score = row.vr_score
    /\ responses = <<>>
    /\ scores = <<>>
    /\ essays = <<>>
    /\ sessions = <<>>
    /\ final = None
    /\ pc = [p \in Procs |-> IF p = "w1" THEN "advance" ELSE "idle"]
    /\ op = [p \in Procs |-> NoOp]
    /\ response = None
    /\ \E obj \in ProgressObjects : prog = [p \in Procs |-> IF p = "w1" THEN obj ELSE NoProg]
    /\ session = [p \in Procs |-> NoSession]
    /\ tmp = [p \in Procs |-> NoTmp]

NextAdvance == \E p \in workers : Advance_Call(p)

SpecAdvance == InitAdvance /\ [][NextAdvance]_vars

\* ------------------------------------------------------------ finalize_result alone
\* finalize_result(user) called on any rows the schema allows: the progress
\* row with any status, essay_snapshot and vr_score null or set, Score rows
\* absent or present, a FinalScore row absent or present
FinalizeSnapshots ==
    {None} \cup {Some(EssaySnapshot(e)) : e \in {d \in EssayInputs : SerializerValid(d)}}

FinalizeVRScores == {None, Some(0), Some(1000), Some(MaxVRScore)}

FinalizeScoreRows == {<<>>} \cup {ScoreRows(Bank, m) : m \in FewRequests.mcq}

FinalizeFinalRows ==
    {None,
     Some(FinalDefaults(ScoreRows(Bank, [q \in 1..RequiredAnswers |-> "Agree"]),
                        None, 0))}

InitFinalize ==
    /\ questions = Bank
    /\ InitProcess
    /\ workers = Procs
    /\ client = FewRequests
    /\ progress_exists = TRUE
    /\ status \in Status
    /\ essay_snapshot \in FinalizeSnapshots
    /\ vr_score \in FinalizeVRScores
    /\ responses = <<>>
    /\ scores \in FinalizeScoreRows
    /\ essays = <<>>
    /\ sessions = <<>>
    /\ final \in FinalizeFinalRows
    /\ pc = [p \in Procs |-> "finalize_entry"]
    /\ op = [p \in Procs |-> [name |-> "vr_complete", arg |-> Some([session_id |-> 1])]]
    /\ response = None
    /\ prog = [p \in Procs |-> NoProg]
    /\ session = [p \in Procs |-> NoSession]
    /\ tmp = [p \in Procs |-> NoTmp]

NextFinalize ==
    \/ \E p \in workers : Finalize_Entry(p)
    \/ \E p \in workers : Finalize_ReadScores(p)
    \/ \E p \in workers : Finalize_Upsert(p)
    \/ \E p \in workers : Finalize_Advance(p)

SpecFinalize == InitFinalize /\ [][NextFinalize]_vars

\* ------------------------------------------------------------ QuestionListView
PoolMin == 19     \* fewest questions of a pool
PoolMax == 21     \* most questions of a pool
MaxFill == 2      \* most questions the fill step has to add

SelectCount == 20     \* views.py: random.sample(strict, 20), len(selected) < 20

\* a NULL gender_specific
NULL == "NULL"

\* age_group__in=["all", user.age_range]
AgeMatches(q, user) == q.age_group \in {"all", user.age_range}

\* gender_specific__in=[None, "", user.gender]: an IN list matches no NULL
GenderMatches(q, user) == q.gender_specific \in {"", user.gender}

\* profession_tags__overlap=[user.profession]
ProfessionMatches(q, user) == user.profession \in q.profession_tags

\* the ids of the rows of the first and of the second query
Strict(qs, user) ==
    {q \in DOMAIN qs : /\ AgeMatches(qs[q], user)
                       /\ GenderMatches(qs[q], user)
                       /\ ProfessionMatches(qs[q], user)}

Fallback(qs, user) ==
    {q \in DOMAIN qs : AgeMatches(qs[q], user) /\ GenderMatches(qs[q], user)}

\* combined = list(set(strict + fallback))
Combined(qs, user) == Strict(qs, user) \cup Fallback(qs, user)

\* The subsets of S that have k elements, for small k
RECURSIVE SmallSubsets(_, _)
SmallSubsets(S, k) ==
    IF k = 0 THEN {{}}
    ELSE UNION {{T \cup {x} : x \in S \ T} : T \in SmallSubsets(S, k - 1)}

\* random.sample(population, k) of distinct rows: any k of them (the order
\* of the list is not modelled: lists of rows are kept by ascending id)
Sample(S, k) ==
    IF 2 * k <= Cardinality(S)
    THEN SmallSubsets(S, k)
    ELSE {S \ T : T \in SmallSubsets(S, Cardinality(S) - k)}

\* remaining_needed = 20 - len(combined)
RemainingNeeded(qs, user) == SelectCount - Cardinality(Combined(qs, user))

\* The lists `selected` may be
Selections(qs, user) ==
    IF Cardinality(Strict(qs, user)) >= SelectCount
    THEN {KeySeq(T) : T \in Sample(Strict(qs, user), SelectCount)}
    ELSE IF Cardinality(Combined(qs, user)) >= SelectCount
    THEN {KeySeq(T) : T \in Sample(Combined(qs, user), SelectCount)}
    ELSE {KeySeq(Combined(qs, user)) \o KeySeq(additional) :
             additional \in Sample(DOMAIN qs,
                                   Min(RemainingNeeded(qs, user), Cardinality(DOMAIN qs)))}

\* One GET of the question list is followed: the handler reads nothing a
\* request writes
QuestionList_Get(p) ==
    /\ pc[p] = "idle"
    /\ IsNone(response)
    /\ RemainingNeeded(questions, client.profile) <= MaxFill
    /\ \E selected \in Selections(questions, client.profile) :
          IF Len(selected) < SelectCount
          THEN Respond(p, "questions", 400)
          ELSE /\ pc' = [pc EXCEPT ![p] = "idle"]
               /\ response' = Some([worker |-> p, name |-> "questions", code |-> 200,
                                    data |-> Some(selected)])
               /\ UNCHANGED <<op, prog, session, tmp>>
    /\ UNCHANGED <<env, db>>

\* A pool of a + b + c questions: a that are open to every age and gender and
\* tagged Developer, b that are for males of 21-30 and tagged Trainer, c that
\* are for the age 41-50 with a NULL gender_specific
PoolQuestion(q, a, b) ==
    [BankQuestion(q) EXCEPT
       !.age_group = IF q <= a THEN "all" ELSE IF q <= a + b THEN "21-30" ELSE "41-50",
       !.gender_specific = IF q <= a THEN "" ELSE IF q <= a + b THEN "Male" ELSE NULL,
       !.profession_tags = IF q <= a THEN {"Developer"} ELSE {"Trainer"}]

Pool(a, b, c) == [q \in 1..(a + b + c) |-> PoolQuestion(q, a, b)]

Pools ==
    {Pool(t[1], t[2], t[3]) :
        t \in {u \in (0..PoolMax) \X (0..PoolMax) \X (0..PoolMax) :
                  u[1] + u[2] + u[3] \in PoolMin..PoolMax}}

InitSelect ==
    /\ questions \in Pools
    /\ InitProcess
    /\ workers = {"w1"}
    /\ client \in {[AllRequests EXCEPT !.profile = u] : u \in Profiles}
    /\ InitRows
    /\ InitIdle

NextSelect == \E p \in workers : QuestionList_Get(p)

SpecSelect == InitSelect /\ [][NextSelect]_vars

\* ------------------------------------------------------------ the VR stage alone
\* The rows after an accepted MCQ submission, an accepted essay submission and
\* one or two VR starts, an answer stored or not; two VR requests may be
\* served at once
InitVRStage ==
    /\ questions = Bank
    /\ InitProcess
    /\ workers = Procs
    /\ client = [FewRequests EXCEPT !.session_ids = 1..MaxSessions,
                                    !.max_sessions = MaxSessions]
    /\ progress_exists = TRUE
    /\ status = ESSAY_DONE
    /\ \E e \in FewRequests.essay :
          /\ essay_snapshot = Some(EssaySnapshot(e))
          /\ essays = EssayRows(e)
    /\ vr_score = None
    /\ \E m \in FewRequests.mcq :
          /\ responses = ResponseRows(Bank, m)
          /\ scores = ScoreRows(Bank, m)
    /\ \E n \in 1..MaxSessions :
          sessions \in [1..n -> {NewSessionRow} \cup
                                 {[NewSessionRow EXCEPT !.choices = <<AnswerItem(a)>>] :
                                     a \in FewRequests.answers}]
    /\ final = None
    /\ InitIdle

NextVRStage ==
    \/ \E p \in workers : VRAnswer_Entry(p)
    \/ \E p \in workers : VRAnswer_Save(p)
    \/ \E p \in workers : VRComplete_Entry(p)
    \/ \E p \in workers : VRComplete_GetSession(p)
    \/ \E p \in workers : VRComplete_SaveSession(p)
    \/ \E p \in workers : VRComplete_Advance(p)
    \/ \E p \in workers : Finalize_Entry(p)
    \/ \E p \in workers : Finalize_ReadScores(p)
    \/ \E p \in workers : Finalize_Upsert(p)
    \/ \E p \in workers : Finalize_Advance(p)

SpecVRStage == InitVRStage /\ [][NextVRStage]_vars

\* ------------------------------------------------------------ ai_analysis: the embedding model
\* Texts of one _semantic_flow call
MaxTexts == 2

\* 0.5, in hundredths: what _semantic_flow returns without embeddings
Neutral == 50

\* min(max(mean distance / 5, 0), 1) of the texts, in hundredths
FlowValues == {0, 80}

SetAnalysis(t, rec) == analysis' = [analysis EXCEPT ![t] = rec]

\* analyze_essay calls _semantic_flow(texts): the loop reaches its first
\* _embedding(text)
SemanticFlow_Call(t) ==
    /\ analysis[t].pc = "idle"
    /\ \E n \in 1..MaxTexts, f \in FlowValues :
          SetAnalysis(t, [pc |-> "load_check", left |-> n, embs |-> 0, flow |-> f,
                          authenticity |-> None])
    /\ UNCHANGED <<questions, workers, client, library, tokenizer, bert, db, locals>>

\* _load_bert: the two tests; `return False` makes _embedding return None and
\* _semantic_flow return 0.5
LoadBert_Check(t) ==
    /\ analysis[t].pc = "load_check"
    /\ IF IsNone(tokenizer) \/ IsNone(bert)
       THEN IF ~library
            THEN SetAnalysis(t, [analysis[t] EXCEPT !.pc = "returned",
                                                    !.authenticity = Some(Neutral)])
            ELSE SetAnalysis(t, [analysis[t] EXCEPT !.pc = "load_tokenizer"])
       ELSE SetAnalysis(t, [analysis[t] EXCEPT !.pc = "embed"])
    /\ UNCHANGED <<questions, workers, client, library, tokenizer, bert, db, locals>>

\* _tokenizer = BertTokenizer.from_pretrained(...): returns an instance or raises
LoadBert_Tokenizer(t) ==
    /\ analysis[t].pc = "load_tokenizer"
    /\ \E loaded \in BOOLEAN :
          IF loaded
          THEN /\ tokenizer' = Some(t)
               /\ SetAnalysis(t, [analysis[t] EXCEPT !.pc = "load_model"])
          ELSE /\ SetAnalysis(t, [analysis[t] EXCEPT !.pc = "raised"])
               /\ UNCHANGED tokenizer
    /\ UNCHANGED <<questions, workers, client, library, bert, db, locals>>

\* _bert = BertModel.from_pretrained(...): returns an instance or raises;
\* then `return True`
LoadBert_Model(t) ==
    /\ analysis[t].pc = "load_model"
    /\ \E loaded \in BOOLEAN :
          IF loaded
          THEN /\ bert' = Some(t)
               /\ SetAnalysis(t, [analysis[t] EXCEPT !.pc = "embed"])
          ELSE /\ SetAnalysis(t, [analysis[t] EXCEPT !.pc = "raised"])
               /\ UNCHANGED bert
    /\ UNCHANGED <<questions, workers, client, library, tokenizer, db, locals>>

\* _embedding computes the vector with the globals; _semantic_flow appends it
\* and goes to the next text or returns
Embedding_Compute(t) ==
    /\ analysis[t].pc = "embed"
    /\ LET embs == analysis[t].embs + 1
           left == analysis[t].left - 1
       IN IF left > 0
          THEN SetAnalysis(t, [analysis[t] EXCEPT !.pc = "load_check", !.left = left,
                                                  !.embs = embs])
          ELSE SetAnalysis(t, [analysis[t] EXCEPT
                                  !.pc = "returned", !.left = left, !.embs = embs,
                                  !.authenticity = IF embs < 2 THEN Some(Neutral)
                                                   ELSE Some(analysis[t].flow)])
    /\ UNCHANGED <<questions, workers, client, library, tokenizer, bert, db, locals>>

\* The call is over: analyze_essay goes on with the value, or the exception
\* leaves analyze_essay and EssaySubmitView.post
SemanticFlow_Return(t) ==
    /\ analysis[t].pc \in {"returned", "raised"}
    /\ SetAnalysis(t, NoAnalysis)
    /\ UNCHANGED <<questions, workers, client, library, tokenizer, bert, db, locals>>

\* The library is installed or not; threads of one process analyse essays
InitAnalysis ==
    /\ questions = Bank
    /\ workers = Procs
    /\ client = FewRequests
    /\ InitRows
    /\ InitIdle
    /\ library \in BOOLEAN
    /\ tokenizer = None
    /\ bert = None
    /\ analysis = [t \in Procs |-> NoAnalysis]

NextAnalysis ==
    \/ \E t \in workers : SemanticFlow_Call(t)
    \/ \E t \in workers : LoadBert_Check(t)
    \/ \E t \in workers : LoadBert_Tokenizer(t)
    \/ \E t \in workers : LoadBert_Model(t)
    \/ \E t \in workers : Embedding_Compute(t)
    \/ \E t \in workers : SemanticFlow_Return(t)

SpecAnalysis == InitAnalysis /\ [][NextAnalysis]_vars

\* ------------------------------------------------------------ the MCQ stage alone
\* Question.weight is a FloatField without validators: load_questions draws
\* 0.8..1.2, the admin site stores any number (hundredths)
ScoringWeights == {-100, 80, 120, 200}

\* A bank whose questions all carry weight w
ScoringBank(w) == [q \in 1..BankSize |-> [BankQuestion(q) EXCEPT !.weight = w]]

\* A 20-entry mapping of which some ids match no question
MixedInput == [q \in 11..(10 + RequiredAnswers) |-> IF q % 2 = 0 THEN "Agree" ELSE "Neutral"]

InitScoring ==
    /\ questions \in {ScoringBank(w) : w \in ScoringWeights}
    /\ workers = {"w1"}
    /\ client = [AllRequests EXCEPT !.mcq = MCQInputs \cup {MixedInput}]
    /\ InitProcess
    /\ InitRows
    /\ InitIdle

NextScoring ==
    \/ \E p \in workers : SubmitAnswers_Entry(p)
    \/ \E p \in workers : SubmitAnswers_Delete(p)
    \/ \E p \in workers : SubmitAnswers_Create(p)
    \/ \E p \in workers : SubmitAnswers_Advance(p)

SpecScoring == InitScoring /\ [][NextScoring]_vars

\* ------------------------------------------------------------ the score ranges
\* Answers stored in the session when it is completed
MaxAnswers == 6

\* The rows the MCQ and essay stages can leave and a session of 0..MaxAnswers
\* stored answers: VR completion and finalize_result run on them
InitRanges ==
    /\ questions \in {ScoringBank(w) : w \in ScoringWeights}
    /\ InitProcess
    /\ workers = {"w1"}
    /\ client = FewRequests
    /\ progress_exists = TRUE
    /\ status = ESSAY_DONE
    /\ \E e \in {d \in EssayInputs : SerializerValid(d)} :
          /\ essay_snapshot = Some(EssaySnapshot(e))
          /\ essays = EssayRows(e)
    /\ vr_score = None
    /\ \E m \in FewRequests.mcq :
          /\ responses = ResponseRows(questions, m)
          /\ scores = ScoreRows(questions, m)
    /\ \E n \in 0..MaxAnswers, a \in VRAnswerInputs :
          sessions = <<[NewSessionRow EXCEPT !.choices = [i \in 1..n |-> AnswerItem(a)]]>>
    /\ final = None
    /\ InitIdle

NextRanges ==
    \/ \E p \in workers : VRComplete_Entry(p)
    \/ \E p \in workers : VRComplete_GetSession(p)
    \/ \E p \in workers : VRComplete_SaveSession(p)
    \/ \E p \in workers : VRComplete_Advance(p)
    \/ \E p \in workers : Finalize_Entry(p)
    \/ \E p \in workers : Finalize_ReadScores(p)
    \/ \E p \in workers : Finalize_Upsert(p)
    \/ \E p \in workers : Finalize_Advance(p)

SpecRanges == InitRanges /\ [][NextRanges]_vars

\* ------------------------------------------------------------ analyze_essay: the final score
\* The STRICT penalties, in hundredths, of the measures f of the texts: word
\* counts in words, ratios and tone in hundredths
Penalty(f) ==
    (IF f.n_mean < 60 THEN 35 ELSE 0)
    + (IF f.uniq_mean < 50 THEN 35 ELSE 0)
    + (IF f.rep_run_max >= 3 THEN 40 ELSE 0)
    + (IF f.bi_rep_max > 35 \/ f.tri_rep_max > 25 THEN 30 ELSE 0)
    + (IF f.filler_mean > 8 THEN 15 ELSE 0)
    + (IF f.ai_flags >= 2 THEN 40 ELSE IF f.ai_flags = 1 THEN 20 ELSE 0)
    + (IF f.paste_count > 0 THEN 70 ELSE 0)
    + (IF f.short_time_count >= 2 \/ f.very_short_any THEN 30 ELSE 0)
    + (IF f.wpm_max >= 180 THEN 25 ELSE 0)

\* round(max(0.0, min(raw, 1.0)) * 100.0, 2), in hundredths of a point
RawScore(f) ==
    LET length_component == Min(10000, (f.n_mean * 10000) \div 180)
        diversity_component == Min(10000, Max(0, ((f.uniq_mean - 35) * 10000) \div 45))
        content_norm == (6 * length_component + 4 * diversity_component) \div 10
        penalty == Min(Penalty(f), 100)
        content_after_penalty == Max(0, (content_norm * (100 - penalty)) \div 100)
        feature_norm == Min(10000, (25 * Max(0, (f.tone_mean + 100) * 50)
                                      + 75 * f.authenticity * 100) \div 100)
        raw == (70 * content_after_penalty + 30 * feature_norm) \div 100
    IN Max(0, Min(raw, 10000))

\* final_score after the hard clamps for clear abuse
FinalAiScoreNoAbuseClamp(f) ==
    IF f.paste_count > 0 THEN Min(RawScore(f), 6000) ELSE RawScore(f)
FinalAiScore(f) ==
    LET clamped == IF f.rep_run_max >= 3 /\ f.uniq_mean < 40 /\ f.n_mean < 40
                   THEN Min(RawScore(f), 500)
                   ELSE RawScore(f)
    IN IF f.paste_count > 0 THEN Min(clamped, 6000) ELSE clamped

\* Measures of three-answer essays: short and long, repetitive or not, pasted
\* or not, of every tone and authenticity
EssayMeasures ==
    [n_mean : {3, 100, 200}, uniq_mean : {30, 90}, rep_run_max : {1, 3},
     bi_rep_max : {0}, tri_rep_max : {0}, filler_mean : {0}, ai_flags : {0, 2},
     paste_count : {0, 1}, short_time_count : {0}, very_short_any : BOOLEAN,
     wpm_max : {0}, tone_mean : {-100, 50, 100}, authenticity : {0, Neutral, 100}]

\* The essay request with measures f
EssayOf(f) ==
    [key |-> "f", answers |-> 3, timers |-> 3, is_pasted |-> 3, min_chars |-> TRUE,
     tone_mean |-> f.tone_mean, authenticity |-> f.authenticity,
     uniq_mean |-> f.uniq_mean, final_ai_score |-> FinalAiScore(f), measures |-> f]

\* The MCQ stage is done; one essay with some measures is submitted
InitEssayScore ==
    /\ questions = Bank
    /\ InitProcess
    /\ workers = {"w1"}
    /\ \E f \in EssayMeasures :
          /\ f.n_mean < 40 => f.very_short_any
          /\ client = [FewRequests EXCEPT !.essay = {EssayOf(f)}]
    /\ progress_exists = TRUE
    /\ status = MCQ_DONE
    /\ essay_snapshot = None
    /\ vr_score = None
    /\ \E m \in FewRequests.mcq :
          /\ responses = ResponseRows(questions, m)
          /\ scores = ScoreRows(questions, m)
    /\ essays = <<>>
    /\ sessions = <<>>
    /\ final = None
    /\ InitIdle

NextEssayScore ==
    \/ \E p \in workers : EssaySubmit_Entry(p)
    \/ \E p \in workers : EssaySubmit_Create(p)
    \/ \E p \in workers : EssaySubmit_CheckMCQ(p)
    \/ \E p \in workers : EssaySubmit_Advance(p)

SpecEssayScore == InitEssayScore /\ [][NextEssayScore]_vars

\* ============================================================== properties
\* C1: over non-overlapping stage requests of the user, a reset apart, the
\* persisted status never moves to an earlier state of the order: every step
\* other than the save of a reset leaves the status where it is or moves it
\* to a later state.
C1_StatusNeverMovesBack ==
    [][(\E p \in Procs : pc[p] = "reset_save" /\ pc'[p] = "idle")
         \/ Index(status') >= Index(status)]_vars

\* an MCQ submission made at FINALIZED has been refused, the status kept
C1_Witness ==
    /\ status = FINALIZED
    /\ ~IsNone(response)
    /\ Val(response).name = "mcq"
    /\ Val(response).code = 409

\* C2: progress updates are atomic read-modify-writes: a stage request that
\* saves its in-memory progress object overwrites no status, essay_snapshot
\* or vr_score that was committed after the request read the row.
C2_NoLostProgressUpdate ==
    [][\A p \in Procs :
          (/\ pc[p] \in {"mcq_advance", "essay_advance", "vr_complete_advance",
                         "finalize_advance"}
           /\ pc'[p] # pc[p])
          => /\ ~(status # prog[p].status /\ status' # status)
             /\ ~(essay_snapshot # prog[p].essay_snapshot /\ essay_snapshot' # essay_snapshot)
             /\ ~(vr_score # prog[p].vr_score /\ vr_score' # vr_score)]_vars

\* C3: advance(t) on an object of status s leaves the status s when the index
\* of t is at most that of s (the stored row is not written when it is
\* smaller), and makes the status t, in memory and in the row, when the index
\* of t is greater.
C3_AdvanceOnlyForward ==
    [][\A p \in Procs :
          (pc[p] = "advance" /\ op'[p].name = "advance")
          => LET s == prog[p].status
                 t == Val(op'[p].arg).next_status
             IN IF Index(t) <= Index(s)
                THEN /\ prog'[p].status = s
                     /\ Index(t) < Index(s)
                           => UNCHANGED <<status, essay_snapshot, vr_score>>
                     /\ Index(t) = Index(s) => status' = s
                ELSE /\ prog'[p].status = t
                     /\ status' = t]_vars

\* advance(MCQ_DONE) was called on an object at ESSAY_DONE, which stays there
C3_Witness ==
    /\ op["w1"].name = "advance"
    /\ Val(op["w1"].arg).status_before = ESSAY_DONE
    /\ Val(op["w1"].arg).next_status = MCQ_DONE
    /\ prog["w1"].status = ESSAY_DONE

\* C4: a stage operation invoked while the status disallows it (MCQ at
\* ESSAY_DONE, VR_DONE or FINALIZED; essay at any status but MCQ_DONE; VR
\* start or VR complete at any status but ESSAY_DONE) answers with the
\* out-of-order failure (409) and changes no persisted record of the user.
C4_OutOfOrderRefused ==
    [][\A p \in Procs : \A name \in {"mcq", "essay", "vr_start", "vr_complete"} :
          (/\ pc[p] = "idle"
           /\ \/ op'[p].name = name
              \/ /\ ~IsNone(response')
                 /\ Val(response').worker = p
                 /\ Val(response').name = name
           /\ \/ name = "mcq" /\ status \in {ESSAY_DONE, VR_DONE, FINALIZED}
              \/ name = "essay" /\ status # MCQ_DONE
              \/ name \in {"vr_start", "vr_complete"} /\ status # ESSAY_DONE)
          => /\ ~IsNone(response')
             /\ Val(response').worker = p
             /\ Val(response').code = 409
             /\ UNCHANGED <<status, essay_snapshot, vr_score, responses, scores,
                            essays, sessions, final>>]_vars

\* an essay submission made at ESSAY_DONE has been refused
C4_Witness ==
    /\ status = ESSAY_DONE
    /\ essays # <<>>
    /\ ~IsNone(response)
    /\ Val(response).name = "essay"
    /\ Val(response).code = 409

\* C5: a VR-stage operation takes effect (a session is created, an answer is
\* appended to a session, a session is completed) only while the status is
\* ESSAY_DONE.
C5_VROnlyAtEssayDone ==
    [][\A p \in Procs :
          (/\ pc[p] \in {"vr_start_create", "vr_answer_save", "vr_complete_save"}
           /\ pc'[p] # pc[p])
          => status = ESSAY_DONE]_vars

\* C8: the user has at most one VR session whose completed_at is unset.
C8_AtMostOneOpenSession ==
    Cardinality({i \in DOMAIN sessions : IsNone(sessions[i].completed_at)}) <= 1

\* C9: once completed_at of a VR session is set, its choices and its
\* completed_at do not change until a reset deletes the session.
C9_CompletedSessionImmutable ==
    [][\A i \in DOMAIN sessions :
          ~IsNone(sessions[i].completed_at)
          => \/ \E p \in Procs : pc[p] = "idle" /\ pc'[p] = "reset_save"
             \/ (i \in DOMAIN sessions' /\ sessions'[i] = sessions[i])]_vars

\* C6: finalize_result creates or changes the FinalScore row and advances to
\* FINALIZED only if the progress row it read at the call had status VR_DONE
\* and a vr_score; a call that finds another status, or no vr_score, returns
\* an error and leaves the FinalScore row and the status as they are.
C6_FinalizeOnlyAtVRDoneWithScore ==
    [][\A p \in Procs :
          /\ (pc[p] = "finalize_entry" /\ pc'[p] # pc[p] /\ status # VR_DONE)
                => /\ ~IsNone(response')
                   /\ Val(response').worker = p
                   /\ Val(response').code >= 400
                   /\ UNCHANGED <<final, status>>
          /\ (pc[p] = "finalize_entry" /\ pc'[p] = "finalize_scores")
                => prog'[p] = StoredProgress
          /\ (pc[p] = "finalize_scores" /\ pc'[p] # pc[p] /\ IsNone(prog[p].vr_score))
                => /\ ~IsNone(response')
                   /\ Val(response').worker = p
                   /\ Val(response').code >= 400
                   /\ UNCHANGED <<final, status>>
          /\ (/\ pc[p] \in {"finalize_scores", "finalize_upsert", "finalize_advance"}
              /\ pc'[p] # pc[p]
              /\ (final' # final \/ status' # status))
                => /\ prog[p].status = VR_DONE
                   /\ ~IsNone(prog[p].vr_score)]_vars

\* a finalize that found VR_DONE and a vr_score has stored the result
C6_Witness ==
    /\ status = FINALIZED
    /\ ~IsNone(final)
    /\ ~IsNone(response)
    /\ Val(response).code = 200

C10_SelectionTwentyDistinct ==
    (/\ ~IsNone(response)
     /\ Val(response).name = "questions"
     /\ Cardinality(DOMAIN questions) >= SelectCount)
    => /\ Val(response).code = 200
       /\ LET selected == Val(Val(response).data)
          IN /\ Len(selected) = SelectCount
             /\ \A i, j \in 1..Len(selected) : i # j => selected[i] # selected[j]
             /\ Cardinality(Strict(questions, client.profile)) = SelectCount
                   => {selected[i] : i \in 1..Len(selected)}
                         = Strict(questions, client.profile)

\* C11: for a pool of fewer than 20 questions, QuestionListView answers with
\* the not-enough-questions failure (400) and returns no list of questions.
C11_SmallPoolFails ==
    (/\ ~IsNone(response)
     /\ Val(response).name = "questions"
     /\ Cardinality(DOMAIN questions) < SelectCount)
    => /\ Val(response).code = 400
       /\ IsNone(Val(response).data)

\* C12: when an accepted MCQ submission of sequential requests ends, the stored
\* UserResponse rows and Score rows are exactly the rows of that submission:
\* one Score row for each trait it touched, none of an earlier submission.
C12_LastSubmissionOnly ==
    [][\A p \in Procs :
          (pc[p] = "mcq_advance" /\ pc'[p] = "idle")
          => /\ responses' = ResponseRows(questions, Arg(p))
             /\ scores' = ScoreRows(questions, Arg(p))
             /\ \A i, j \in 1..Len(scores') :
                   i # j => scores'[i].trait # scores'[j].trait
             /\ {scores'[i].trait : i \in 1..Len(scores')}
                   = {questions[responses'[i].question].trait : i \in 1..Len(responses')}]_vars

\* a resubmission made at MCQ_DONE has replaced the rows and is about to advance
C12_Witness ==
    /\ pc["w1"] = "mcq_advance"
    /\ status = MCQ_DONE
    /\ scores # <<>>
    /\ scores = ScoreRows(questions, Arg("w1"))
    /\ responses = ResponseRows(questions, Arg("w1"))

\* C13: once MCQ submissions that were served at the same time have all ended,
\* the user has at most one Score row per trait, and the stored UserResponse
\* and Score rows are the rows of a single submission.
C13_InterleavedSubmissionsOneWins ==
    (\A p \in Procs : pc[p] = "idle")
    => /\ \A i, j \in 1..Len(scores) : i # j => scores[i].trait # scores[j].trait
       /\ \/ responses = <<>> /\ scores = <<>>
          \/ \E m \in client.mcq :
                /\ responses = ResponseRows(questions, m)
                /\ scores = ScoreRows(questions, m)

\* C14: while stage requests, and no reset, are served, a reader never finds a
\* status without the records of its stage: not MCQ_DONE without the Score
\* rows of a submission, not ESSAY_DONE without an essay snapshot, not
\* FINALIZED without a FinalScore row.
C14_ReaderSeesStageRecords ==
    (\A p \in Procs : pc[p] # "reset_save")
    => /\ ProgressView_Get = MCQ_DONE
             => \E m \in client.mcq :
                   \A i \in 1..Len(ScoreRows(questions, m)) :
                      \E j \in 1..Len(scores) : scores[j] = ScoreRows(questions, m)[i]
       /\ ProgressView_Get = ESSAY_DONE => ~IsNone(essay_snapshot)
       /\ ProgressView_Get = FINALIZED => FinalResultView_Get = 200

\* C15: a finalize_result call that begins right after another call returned
\* success, the inputs unchanged, writes nothing: it returns the out-of-order
\* answer, and the user's one FinalScore row stays the row the first call
\* stored, the combiner's output for the stored inputs.
C15_SecondFinalizeChangesNothing ==
    [][\A p \in Procs :
          (/\ pc[p] = "finalize_entry"
           /\ pc'[p] # pc[p]
           /\ ~IsNone(response)
           /\ Val(response).code = 200
           /\ Val(response).worker # p)
          => /\ final = Some(FinalDefaults(scores, essay_snapshot, Val(vr_score)))
             /\ final' = final
             /\ status' = status
             /\ pc'[p] = "idle"
             /\ Val(response').code = 409]_vars

\* both calls have returned, the second with the out-of-order answer, and the
\* row of the first call is stored
C15_Witness ==
    /\ \A p \in Procs : pc[p] = "idle"
    /\ status = FINALIZED
    /\ ~IsNone(essay_snapshot)
    /\ ~IsNone(vr_score)
    /\ final = Some(FinalDefaults(scores, essay_snapshot, Val(vr_score)))
    /\ ~IsNone(response)
    /\ Val(response).code = 409

\* C16: once the VR-complete requests of the user that were served at the same
\* time have all ended, the status is FINALIZED and the one FinalScore row is
\* the combiner's output for the vr_score, essay snapshot and Score rows then
\* stored.
C16_InterleavedCompletesAgree ==
    (/\ \A p \in Procs : pc[p] = "idle"
     /\ status # ESSAY_DONE)
    => /\ status = FINALIZED
       /\ ~IsNone(vr_score)
       /\ final = Some(FinalDefaults(scores, essay_snapshot, Val(vr_score)))

\* C17: when a reset request returns, the status is NOT_STARTED, essay_snapshot
\* and vr_score are empty and the user has no UserResponse, Score,
\* EssayResponse, VRSession or FinalScore row: the store is the one a new user
\* starts from, so the run that follows reads no earlier record.
C17_ResetErasesEverything ==
    [][\A p \in Procs :
          (pc[p] = "reset_save" /\ pc'[p] = "idle")
          => /\ Val(response').name = "reset"
             /\ Val(response').code = 200
             /\ status' = NOT_STARTED
             /\ essay_snapshot' = None
             /\ vr_score' = None
             /\ responses' = <<>>
             /\ scores' = <<>>
             /\ essays' = <<>>
             /\ sessions' = <<>>
             /\ final' = None
             /\ ProgressView_Get' = NOT_STARTED
             /\ FinalResultView_Get' = 409]_vars

\* A reset of a finalized assessment has deleted the rows and is about to save
\* the progress row
C17_Witness ==
    /\ pc["w1"] = "reset_save"
    /\ status = FINALIZED
    /\ ~IsNone(essay_snapshot)
    /\ ~IsNone(vr_score)
    /\ responses = <<>>
    /\ scores = <<>>
    /\ essays = <<>>
    /\ sessions = <<>>
    /\ final = None

\* C18: the embedding model is initialised at most once per process: a
\* from_pretrained call of _load_bert returns an instance only when the global
\* it assigns is still None, also when threads make their first use together.
C18_ModelLoadedOnce ==
    [][\A t \in Procs :
          /\ (analysis[t].pc = "load_tokenizer" /\ analysis'[t].pc = "load_model")
             => tokenizer = None
          /\ (analysis[t].pc = "load_model" /\ analysis'[t].pc = "embed")
             => bert = None]_vars

\* C19: a _semantic_flow call never ends with an exception, and a call that
\* ends while the model is not loaded returned the neutral value 0.5.
C19_UnavailableModelIsNeutral ==
    \A t \in Procs :
        /\ analysis[t].pc # "raised"
        /\ (analysis[t].pc = "returned" /\ IsNone(bert))
           => analysis[t].authenticity = Some(Neutral)

\* C20: an MCQ submission whose mapping has not exactly 20 entries never gets
\* past the checks of SubmitAnswersView.post, and a refused MCQ submission
\* (400, or 409 when the status already refuses it) leaves the user's
\* UserResponse rows, Score rows, status and every other row as they were.
C20_WrongLengthRejectedUntouched ==
    [][\A p \in Procs :
          /\ (pc[p] = "idle" /\ pc'[p] = "mcq_delete")
             => Cardinality(DOMAIN Val(op'[p].arg)) = RequiredAnswers
          /\ (/\ pc[p] = "idle" /\ pc'[p] = "idle"
              /\ ~IsNone(response')
              /\ Val(response').name = "mcq"
              /\ Val(response').worker = p)
             => /\ Val(response').code \in {400, 409}
                /\ MCQAllowed(status) => Val(response').code = 400
                /\ UNCHANGED <<status, essay_snapshot, vr_score, responses, scores,
                               essays, sessions, final>>]_vars

\* A resubmission was refused for its length and the rows of the earlier
\* submission are still stored
C20_Witness ==
    /\ ~IsNone(response)
    /\ Val(response).name = "mcq"
    /\ Val(response).code = 400
    /\ status = MCQ_DONE
    /\ \E m \in client.mcq :
          /\ responses = ResponseRows(questions, m)
          /\ scores = ScoreRows(questions, m)
          /\ scores # <<>>

\* C21: a 20-entry MCQ submission with unknown question ids is accepted: when
\* the request returns, there is one UserResponse row for each entry whose
\* question exists and none for the others, the Score rows are those of the
\* known entries alone, and the status is MCQ_DONE.
C21_UnknownIdsSkipped ==
    [][\A p \in Procs :
          (/\ pc[p] = "mcq_advance" /\ pc'[p] = "idle"
           /\ ~(DOMAIN Arg(p) \subseteq DOMAIN questions))
          => LET known == DOMAIN Arg(p) \cap DOMAIN questions
                 rest == [k \in known |-> Arg(p)[k]]
             IN /\ Val(response').code = 200
                /\ status' = MCQ_DONE
                /\ Len(responses') = Cardinality(known)
                /\ \A k \in known : \E i \in 1..Len(responses') :
                      /\ responses'[i].question = k
                      /\ responses'[i].answer = RawAnswer(questions[k], Arg(p)[k])
                /\ scores' = ScoreRows(questions, rest)
                /\ (known # {}) => scores' # <<>>]_vars

\* A submission of which some, not all, ids were unknown has been stored
C21_Witness ==
    /\ \A p \in Procs : pc[p] = "idle"
    /\ ~IsNone(response)
    /\ Val(response).name = "mcq"
    /\ Val(response).code = 200
    /\ status = MCQ_DONE
    /\ Len(responses) > 0
    /\ Len(responses) < RequiredAnswers
    /\ scores # <<>>

\* C22: each Score row holds the mean, capped at 5.0, of answer x weight over
\* the stored answers of its trait (the stored answer is v, or 6 - v for a
\* reverse-scored question), and lies in [0, 5], for every weight a Question
\* row can carry.
C22_TraitScoreIsCappedMeanInRange ==
    (\A p \in Procs : pc[p] = "idle")
    => \A i \in 1..Len(scores) :
          LET rows == SelectSeq(responses,
                                LAMBDA r : questions[r.question].trait = scores[i].trait)
              contributions == [j \in 1..Len(rows) |->
                                   rows[j].answer * questions[rows[j].question].weight]
          IN /\ rows # <<>>
             /\ \A j \in 1..Len(rows) : rows[j].answer \in 1..5
             /\ scores[i].score = Min(RoundDiv(SumSeq(contributions), Len(rows)), 500)
             /\ scores[i].score >= 0
             /\ scores[i].score <= 500

\* C23: when an accepted essay submission of N answers returns, the user's last
\* N EssayResponse rows are those of the submission, with ordinals 1..N.
C23_OneEssayRowPerAnswer ==
    [][\A p \in Procs :
          (pc[p] = "essay_advance" /\ pc'[p] = "idle")
          => LET n == Arg(p).answers
                 first == Len(essays') - n
             IN /\ Val(response').code = 200
                /\ first >= 0
                /\ \A i \in 1..n :
                      /\ essays'[first + i].question_number = i
                      /\ essays'[first + i].key = Arg(p).key]_vars

\* C24: the vr_score a completion computed (kept in the summary record it
\* appended) is 0.0 when none of the answers before it has spoken content, and
\* 10.0 when the only answer is the strong one (150 words, 2.0 words per
\* second, 0.5 s pauses): a slot without spoken content contributes 0.
C24_SilentSlotsScoreZero ==
    \A sid \in DOMAIN sessions :
        \A i \in 1..Len(sessions[sid].choices) :
            LET item == sessions[sid].choices[i]
                answers == SubSeq(sessions[sid].choices, 1, Min(i - 1, VRSlots))
                spoken == SelectSeq(answers, LAMBDA a : a.words > 0)
            IN ~IsNone(item.summary)
               => /\ (spoken = <<>>) => Val(item.summary).vr_score = 0
                  /\ (/\ Len(answers) = 1
                      /\ answers[1].words = 150
                      /\ answers[1].wps = 200
                      /\ answers[1].pause = 50)
                     => Val(item.summary).vr_score = 1000

\* C25: the stored vr_score, when present, lies in [0, 50] however many answers
\* the session holds, and a stored FinalScore has every top trait's MCQ and
\* essay component in [0.5, 4.7], every trait total at most 9.4 and the final
\* score in [0, 100].
C25_ScoresInRange ==
    /\ ~IsNone(vr_score) => (Val(vr_score) >= 0 /\ Val(vr_score) <= 5000)
    /\ ~IsNone(final)
       => /\ Val(final).final_integrity_score >= 0
          /\ Val(final).final_integrity_score <= 10000
          /\ Len(Val(final).top_traits) <= TopCount
          /\ \A i \in 1..Len(Val(final).top_traits) :
                LET t == Val(final).top_traits[i]
                IN /\ t.mcq_score >= 50 /\ t.mcq_score <= 470
                   /\ t.essay_score >= 50 /\ t.essay_score <= 470
                   /\ t.score <= 940

\* A session of more than five strong answers was completed and finalized
C25_Witness ==
    /\ status = FINALIZED
    /\ vr_score = Some(5000)
    /\ ~IsNone(final)
    /\ Val(final).top_traits # <<>>
    /\ Len(sessions[1].choices) > VRSlots + 1

\* C26: the essay score stored by an accepted essay submission lies in
\* [0, 100]; it is at most 60.0 when an answer was flagged as pasted, and at
\* most 5.0 when the longest repeated-word run is at least 3 with mean
\* uniqueness below 0.4 and mean word count below 40, whatever tone and
\* authenticity would add.
C26_HardClampsApplyLast ==
    ~IsNone(essay_snapshot)
    => \A e \in client.essay :
          LET f == e.measures
              essay_score == Val(essay_snapshot).essay_score
          IN /\ essay_score >= 0
             /\ essay_score <= 10000
             /\ f.paste_count > 0 => essay_score <= 6000
             /\ (f.rep_run_max >= 3 /\ f.uniq_mean < 40 /\ f.n_mean < 40)
                => essay_score <= 500

\* Repeated short answers of the best tone and authenticity were stored with
\* the score the clamp leaves
C26_Witness ==
    /\ status = ESSAY_DONE
    /\ ~IsNone(essay_snapshot)
    /\ Val(essay_snapshot).essay_score = 500
    /\ \E e \in client.essay :
          /\ e.measures.rep_run_max >= 3
          /\ e.measures.n_mean = 3
          /\ e.measures.authenticity = 100
          /\ RawScore(e.measures) > 500

\* C27: in every state reached by requests served one after another, between
\* requests: status ESSAY_DONE, VR_DONE or FINALIZED implies the essay snapshot
\* is stored, status VR_DONE or FINALIZED implies vr_score is stored, and a
\* FinalScore row exists exactly when the status is FINALIZED.
C27_StatusHasStageData ==
    (\A p \in Procs : pc[p] = "idle")
    => /\ status \in {ESSAY_DONE, VR_DONE, FINALIZED} => ~IsNone(essay_snapshot)
       /\ status \in {VR_DONE, FINALIZED} => ~IsNone(vr_score)
       /\ ~IsNone(final) <=> status = FINALIZED

\* A VR-complete request has returned and left the finalized assessment
C27_Witness ==
    /\ \A p \in Procs : pc[p] = "idle"
    /\ ~IsNone(response)
    /\ Val(response).name = "vr_complete"
    /\ Val(response).code = 200
    /\ status = FINALIZED
    /\ ~IsNone(essay_snapshot)
    /\ ~IsNone(vr_score)
    /\ ~IsNone(final)

\* C28: between requests, a status of MCQ_DONE or later implies that the user
\* has at least one Score row, also after an accepted 20-entry submission whose
\* question ids are all unknown.
C28_DoneImpliesTraitScores ==
    (/\ \A p \in Procs : pc[p] = "idle"
     /\ status \in {MCQ_DONE, ESSAY_DONE, VR_DONE, FINALIZED})
    => scores # <<>>

\* C29: an essay submission that ends in a failure response stores nothing:
\* between requests, as long as no essay submission has been accepted (the
\* status is NOT_STARTED or MCQ_DONE), the user has no EssayResponse row and
\* no essay snapshot.
C29_FailedEssayLeavesNothing ==
    (/\ \A p \in Procs : pc[p] = "idle"
     /\ status \in {NOT_STARTED, MCQ_DONE})
    => /\ essays = <<>>
       /\ IsNone(essay_snapshot)

\* C30: with requests served one after another, a VR-complete request that
\* passed its guards returns 200 with the status FINALIZED and a FinalScore row
\* stored, and no request that has returned leaves the status VR_DONE.
C30_CompleteEndsFinalized ==
    [][/\ \A p \in Procs :
            (/\ pc[p] \in {"vr_complete_save", "vr_complete_advance", "finalize_entry",
                           "finalize_scores", "finalize_upsert", "finalize_advance"}
             /\ pc'[p] = "idle")
            => /\ pc[p] = "finalize_advance"
               /\ Val(response').name = "vr_complete"
               /\ Val(response').code = 200
               /\ status' = FINALIZED
               /\ ~IsNone(final')
       /\ (\A p \in Procs : pc'[p] = "idle") => status' # VR_DONE]_vars

\* A session was completed and the request that completed it has stored the
\* result and returned
C30_Witness ==
    /\ \A p \in Procs : pc[p] = "idle"
    /\ ~IsNone(response)
    /\ Val(response).name = "vr_complete"
    /\ Val(response).code = 200
    /\ \E sid \in DOMAIN sessions : ~IsNone(sessions[sid].completed_at)
    /\ status = FINALIZED
    /\ ~IsNone(vr_score)
    /\ final = Some(FinalDefaults(scores, essay_snapshot, Val(vr_score)))

====
